---- MODULE Spec2Model ----
(***************************************************************************)
(* Model of mdrcp's deployment run (src/src/lib.rs, non-Windows build):    *)
(* run_with_options from project-type detection to the final result,       *)
(* try_self_update, and do_main_with_options' exit code.                   *)
(*                                                                         *)
(* Conventions.                                                            *)
(*  - An Option<T> is a sequence of length at most one: <<>> is None and   *)
(*    <<v>> is Some(v).                                                    *)
(*  - Artifact names are the integers 1..NumNames.  exe_filename is the    *)
(*    identity on the non-Windows build, so a name also stands for its     *)
(*    executable file name, and the integer n used as a path stands for    *)
(*    <target_dir>/<n>.  Path 0 (ElsewherePath) is a path outside the      *)
(*    destination directory.                                               *)
(*  - A directory path is a record [abs, s].                               *)
(*  - What the code reads from the outside world once (options, files on   *)
(*    disk, environment variables, the outcome of a write or of a copy)    *)
(*    is drawn with \E in the action that reads it.                        *)
(***************************************************************************)
EXTENDS Integers, Sequences, FiniteSets, TLC

\* ---------------------------------------------------------------- bounds
NumNames == 3

\* most [[bin]] entries of a manifest
MaxBins == 2

\* most entries of workspace.members
MaxMembers == 2

\* most arguments on the command line
MaxArgs == 4

Names == 1..NumNames

\* ------------------------------------------------------------- variables
VARIABLES
  pc,                  \* position inside do_main_with_options/run_with_options
  current_exe,         \* Option: canonical path the running executable resolves to
  aliased,             \* TRUE: <target_dir>/2 is a symlink to <target_dir>/1
  relocated,           \* the environment has already moved the running executable
  project_type,        \* local project_type
  built_executables,   \* local built_executables (Vec, arbitrary HashSet order)
  idx,                 \* position of the for loop in built_executables
  emit_text,           \* local emit_text
  summary_format,      \* local summary_format
  override_raw,        \* local override_raw (Option)
  default_target,      \* local default_target (Option)
  target_dir,          \* local target_dir (Option until resolved)
  copied_count,        \* local copied_count
  copied_binaries,     \* local copied_binaries
  failed_binaries,     \* local failed_binaries (Vec<FailedCopy>)
  pending_self_update, \* local pending_self_update (Option)
  destFiles,           \* contents of the destination files
  updaterFile,         \* the temp helper file has been written by this run
  helperSpawned,       \* Option: arguments of the spawned helper process
  copyLog,             \* every fs::copy call of the loop, in order, with outcome
  deferLog,            \* every artifact the loop deferred, in order
  selfUpdateLog,       \* every try_self_update call, in order, with result
  override_note,       \* local override_note (Option)
  summaries,           \* every DeploymentSummary constructed, in order
  emitted,             \* number of JSON summaries written to stdout
  result,              \* Option: what run_with_options returned
  exit_code,           \* Option: what do_main_with_options returned
  destKind,            \* what the destination path is on disk: "absent", "file", "dir"
  given,               \* Option: destination inputs fixed before the run starts
  call,                \* Option: the function application under examination
  ret,                 \* Option: the value that application returned
  world,               \* Option: what the runs read from outside, fixed for all of them
  first,               \* Option: how the first of two runs ended
  helper,              \* Option: the finish-update instruction the process carries out
  staleHelper          \* the temp helper file of an earlier update: "none", "stale",
                       \* "deleted", or "kept" when its deletion failed

vars == << pc, current_exe, aliased, relocated, project_type, built_executables,
           idx, emit_text, summary_format, override_raw, default_target,
           target_dir, copied_count, copied_binaries, failed_binaries,
           pending_self_update, destFiles, updaterFile, helperSpawned,
           copyLog, deferLog, selfUpdateLog, override_note, summaries, emitted, result,
           exit_code, destKind, given, call, ret, world, first, helper, staleHelper >>

\* the variables no step of a run writes
callVars == << given, call, ret, world, first, helper, staleHelper >>

envVars == << current_exe, aliased, relocated >>

loopVars == << built_executables, idx, copied_count, copied_binaries,
               failed_binaries, pending_self_update >>

targetVars == << emit_text, summary_format, override_raw, default_target,
                 target_dir >>

effectVars == << destFiles, updaterFile, helperSpawned, copyLog, deferLog,
                selfUpdateLog >>

outVars == << override_note, summaries, emitted >>

\* ------------------------------------------------------------- constants
ElsewherePath == 0

ResolutionErrors ==
  { "NoCargoToml", "ReadFailed", "ParseFailed", "NoPackages", "NoBuilt",
    "EmptyOverrideVariable", "HomeNotSet", "CreateFailed", "NotADirectory" }

project_dir == [abs |-> TRUE, s |-> "/proj"]

\* Path::join: an absolute right-hand side replaces the left-hand side.
PathJoin(base, p) ==
  IF p.abs THEN p ELSE [abs |-> base.abs, s |-> base.s \o "/" \o p.s]

Ok(v) == [ok |-> TRUE, val |-> v]

Err(e) == [ok |-> FALSE, err |-> e]

Perms(S) ==
  { f \in [1..Cardinality(S) -> S] :
      \A i, j \in 1..Cardinality(S) : i # j => f[i] # f[j] }

\* what a path can be on disk
DestKinds == { "absent", "file", "dir" }

\* the inputs still open: S when nothing is fixed, the fixed value otherwise
Drawn(fixed, S) == IF fixed = <<>> THEN S ELSE { fixed[1] }

\* the values the outside world can answer with: S, or what world fixes
Read(field, S) == IF world = <<>> THEN S ELSE { world[1][field] }

\* ------------------------------------------------------------------ Init
\* the locals and effects of a run that has not started
FreshRun ==
  /\ current_exe \in {<<>>, <<ElsewherePath>>, <<1>>}
  /\ aliased \in BOOLEAN
  /\ relocated = FALSE
  /\ project_type = "Standard"
  /\ built_executables = <<>>
  /\ idx = 1
  /\ emit_text = FALSE
  /\ summary_format = "Text"
  /\ override_raw = <<>>
  /\ default_target = <<>>
  /\ target_dir = <<>>
  /\ copied_count = 0
  /\ copied_binaries = <<>>
  /\ failed_binaries = <<>>
  /\ pending_self_update = <<>>
  /\ destFiles = [n \in Names |-> "stale"]
  /\ updaterFile = FALSE
  /\ helperSpawned = <<>>
  /\ copyLog = <<>>
  /\ deferLog = <<>>
  /\ selfUpdateLog = <<>>
  /\ override_note = <<>>
  /\ summaries = <<>>
  /\ emitted = 0
  /\ result = <<>>
  /\ exit_code = <<>>

\* run_with_options is entered
RunInit ==
  /\ pc = "start"
  /\ FreshRun

\* a run whose inputs are all read from the outside world when the code reads them
Init ==
  /\ RunInit
  /\ destKind \in DestKinds
  /\ given = <<>>
  /\ call = <<>>
  /\ ret = <<>>
  /\ world = <<>>
  /\ first = <<>>
  /\ helper = <<>>
  /\ staleHelper = "none"

\* run_with_options returns r; control goes back to do_main_with_options.
Return(r) ==
  /\ result' = <<r>>
  /\ pc' = "returned"

\* ------------------------------------------------- resolution phase

\* Variant of detect_project_type that looks for src-tauri/Cargo.toml only.
detect_project_type_cargo_only(tauri_cargo, tauri_conf, tauri_conf5) ==
  IF tauri_cargo THEN "Tauri" ELSE "Standard"

\* detect_project_type
detect_project_type(tauri_cargo, tauri_conf, tauri_conf5) ==
  IF tauri_cargo /\ (tauri_conf \/ tauri_conf5) THEN "Tauri" ELSE "Standard"

\* run_with_options, the match on options.project_type
project_type_of(opt, tauri_cargo, tauri_conf, tauri_conf5) ==
  IF opt # <<>> THEN opt[1]
  ELSE detect_project_type(tauri_cargo, tauri_conf, tauri_conf5)

\* run_with_options, project type and manifest existence
DetectProject ==
  /\ pc = "start"
  /\ \E opt \in Read("project_type", {<<>>, <<"Standard">>, <<"Tauri">>}),
        root_cargo \in Read("root_cargo", BOOLEAN),
        tauri_cargo \in Read("tauri_cargo", BOOLEAN),
        tauri_conf \in Read("tauri_conf", BOOLEAN),
        tauri_conf5 \in Read("tauri_conf5", BOOLEAN) :
       LET pt == project_type_of(opt, tauri_cargo, tauri_conf, tauri_conf5)
           cargo_exists == IF pt = "Tauri" THEN tauri_cargo ELSE root_cargo
       IN /\ project_type' = pt
          /\ IF ~cargo_exists
               THEN Return("NoCargoToml")
               ELSE /\ pc' = "read"
                    /\ UNCHANGED result
  /\ UNCHANGED << callVars, destKind, envVars, loopVars, targetVars, effectVars, outVars, exit_code >>

\* run_with_options, reading and decoding the manifest
ReadManifest ==
  /\ pc = "read"
  /\ \E readable \in Read("readable", BOOLEAN), decodable \in Read("decodable", BOOLEAN) :
       IF ~readable THEN Return("ReadFailed")
       ELSE IF ~decodable THEN Return("ParseFailed")
       ELSE /\ pc' = "find"
            /\ UNCHANGED result
  /\ UNCHANGED << callVars, destKind, envVars, project_type, loopVars, targetVars, effectVars,
                  outVars, exit_code >>

\* ---- manifests
\* A manifest (a decoded toml Value) is a record [bin, package, members]:
\*   bin      Option of the [[bin]] array; None when the key is absent or no array
\*   package  Option of package.name; None when absent or not a string
\*   members  Option of the workspace.members array
\* A [[bin]] entry is [name, path], each an Option (None: absent or not a
\* string).  A path is [dir, file], file an Option of [stem, ext]: a path such
\* as "" or "src/.." has no file name.  An entry of workspace.members is
\* [kind, data]: "NotString", a path whose Cargo.toml is "Unreadable" or
\* "Undecodable", or a "Manifest" with the decoded member manifest as data.

Opt(S) == { <<>> } \cup { <<x>> : x \in S }

SeqsUpTo(S, k) == UNION { [1..n -> S] : n \in 0..k }

BinPaths ==
  { [dir |-> "src/bin", file |-> f] : f \in Opt([stem : Names, ext : {"rs"}]) }

Bins == [name : Opt(Names), path : Opt(BinPaths)]

\* the manifests manifest_bin_names is examined on
BinManifests ==
  [bin : Opt(SeqsUpTo(Bins, MaxBins)), package : Opt(Names), members : {<<>>}]

\* the manifests of workspace members
MemberManifests == [bin : {<<>>}, package : Opt(Names), members : {<<>>}]

MemberEntries ==
  [kind : {"NotString", "Unreadable", "Undecodable"}, data : {<<>>}]
    \cup [kind : {"Manifest"}, data : { <<m>> : m \in MemberManifests }]

\* the root manifests find_built_executables is examined on
RootManifests ==
  [bin : Opt({ <<[name |-> <<n>>, path |-> <<>>]>> : n \in Names }),
   package : Opt(Names),
   members : Opt(SeqsUpTo(MemberEntries, MaxMembers))]

\* Path::file_stem
file_stem(path) ==
  IF path.file = <<>> THEN <<>> ELSE <<path.file[1].stem>>

\* Variant of bin_name that prefers the stem of the path to the name.
bin_name_path_first(b) ==
  IF b.path # <<>> /\ file_stem(b.path[1]) # <<>> THEN file_stem(b.path[1])
  ELSE b.name

\* manifest_bin_names, the body of the loop over the [[bin]] entries: what one
\* entry pushes (a sequence of length at most one)
bin_name(b) ==
  IF b.name # <<>> THEN b.name
  ELSE IF b.path # <<>> THEN file_stem(b.path[1])
  ELSE <<>>

RECURSIVE bin_names(_)
\* manifest_bin_names, the loop over the [[bin]] entries
bin_names(bins) ==
  IF bins = <<>> THEN <<>>
  ELSE bin_name(Head(bins)) \o bin_names(Tail(bins))

\* Variant of manifest_bin_names that appends the package name unconditionally.
manifest_bin_names_always_append(manifest) ==
  (IF manifest.bin # <<>> THEN bin_names(manifest.bin[1]) ELSE <<>>)
    \o manifest.package

\* manifest_bin_names
manifest_bin_names(manifest) ==
  LET names == IF manifest.bin # <<>> THEN bin_names(manifest.bin[1]) ELSE <<>>
  IN IF manifest.package # <<>>
          /\ ~(\E i \in DOMAIN names : names[i] = manifest.package[1])
       THEN Append(names, manifest.package[1])
       ELSE names

\* find_built_executables, the body of the loop over workspace.members: the
\* names one entry inserts
member_names(member) ==
  IF member.kind = "Manifest" THEN manifest_bin_names(member.data[1]) ELSE <<>>

RECURSIVE members_names_until_bad(_)
\* Variant of members_names that stops at the first entry it cannot use.
members_names_until_bad(members) ==
  IF members = <<>> THEN {}
  ELSE IF Head(members).kind # "Manifest" THEN {}
  ELSE { member_names(Head(members))[i] : i \in DOMAIN member_names(Head(members)) }
         \cup members_names_until_bad(Tail(members))

RECURSIVE members_names(_)
\* find_built_executables, the loop over workspace.members
members_names(members) ==
  IF members = <<>> THEN {}
  ELSE { member_names(Head(members))[i] : i \in DOMAIN member_names(Head(members)) }
         \cup members_names(Tail(members))

\* find_built_executables, the HashSet candidate_names once it is filled
candidate_names_of(cargo_data, extra_names) ==
  { manifest_bin_names(cargo_data)[i] : i \in DOMAIN manifest_bin_names(cargo_data) }
    \cup { extra_names[i] : i \in DOMAIN extra_names }
    \cup (IF cargo_data.members # <<>> THEN members_names(cargo_data.members[1])
          ELSE {})

\* Variant of find_built_executables that returns every candidate.
find_built_executables_unfiltered(candidate_names, profile_files) ==
  IF candidate_names = {}
    THEN Err("NoPackages")
    ELSE Ok(candidate_names)

\* find_built_executables, given the candidate name set and the set of names
\* whose executable exists in the profile directory
find_built_executables(candidate_names, profile_files) ==
  IF candidate_names = {}
    THEN Err("NoPackages")
    ELSE Ok({ base \in candidate_names : base \in profile_files })

\* Variant of require_built that reports an empty list of built executables
\* with the error of an empty candidate set.
require_built_one_error(r) ==
  IF ~r.ok THEN r
  ELSE IF r.val = {} THEN Err("NoPackages")
  ELSE r

\* run_with_options, the check that find_built_executables returned something
require_built(r) ==
  IF ~r.ok THEN r
  ELSE IF r.val = {} THEN Err("NoBuilt")
  ELSE r

\* Variant of FindBuilt that runs after the destination directory has been
\* made sure of: a missing destination is created before the artifacts are
\* looked for.
FindBuiltAfterCreate ==
  /\ pc = "find"
  /\ destKind' = IF destKind = "absent" THEN "dir" ELSE destKind
  /\ \E candidate_names \in Read("candidate_names", SUBSET Names),
        profile_files \in Read("profile_files", SUBSET Names) :
       LET r == require_built(find_built_executables(candidate_names, profile_files))
       IN IF ~r.ok THEN /\ Return(r.err)
                        /\ UNCHANGED built_executables
          ELSE /\ built_executables' \in Perms(r.val)
               /\ pc' = "target"
               /\ UNCHANGED result
  /\ UNCHANGED << callVars, envVars, project_type, idx, copied_count, copied_binaries,
                  failed_binaries, pending_self_update, targetVars, effectVars,
                  outVars, exit_code >>

\* run_with_options, artifact resolution; candidate_names is the set that
\* find_built_executables collects from the manifests and the extra names
FindBuilt ==
  /\ pc = "find"
  /\ \E candidate_names \in Read("candidate_names", SUBSET Names),
        profile_files \in Read("profile_files", SUBSET Names) :
       LET r == require_built(find_built_executables(candidate_names, profile_files))
       IN IF ~r.ok THEN /\ Return(r.err)
                        /\ UNCHANGED built_executables
          ELSE /\ built_executables' \in Perms(r.val)
               /\ pc' = "target"
               /\ UNCHANGED result
  /\ UNCHANGED << callVars, destKind, envVars, project_type, idx, copied_count, copied_binaries,
                  failed_binaries, pending_self_update, targetVars, effectVars,
                  outVars, exit_code >>

\* ------------------------------------------------- destination resolution

RelPath(s) == [abs |-> FALSE, s |-> s]

AbsPath(s) == [abs |-> TRUE, s |-> s]

\* values the MD_TARGET_DIR variable can have: unset, set but empty, a directory
EnvTargetValues == { <<>>, <<RelPath("")>>, <<AbsPath("/env/bin")>> }

\* values the HOME variable can have
HomeValues == { <<>>, <<AbsPath("/home/u")>> }

\* values options.target_override can have: none, a relative directory, and
\* the absolute directory that is also the platform default
OverrideValues == { <<>>, <<RelPath("custom/bin")>>, <<AbsPath("/home/u/.local/bin")>> }

\* Variant of target_dir_override_from_env that treats a variable that is set
\* but empty like an unset one.
target_dir_override_from_env_lenient(env_target) ==
  IF env_target # <<>> /\ env_target[1].s # ""
    THEN Ok(<<env_target[1]>>)
    ELSE Ok(<<>>)

\* target_dir_override_from_env
target_dir_override_from_env(env_target) ==
  IF env_target # <<>>
    THEN IF env_target[1].s = ""
           THEN Err("EmptyOverrideVariable")
           ELSE Ok(<<env_target[1]>>)
    ELSE Ok(<<>>)

\* default_target_dir, cfg(not(windows))
default_target_dir(env_target, home) ==
  LET custom == target_dir_override_from_env(env_target)
  IN IF ~custom.ok THEN custom
     ELSE IF custom.val # <<>> THEN Ok(custom.val[1])
     ELSE IF home = <<>> THEN Err("HomeNotSet")
     ELSE Ok(PathJoin(PathJoin(home[1], RelPath(".local")), RelPath("bin")))

\* Variant of resolve_target_dir in which MD_TARGET_DIR, when set, wins over the
\* explicit override.
resolve_target_dir_env_first(override, env_target, home) ==
  LET d == default_target_dir(env_target, home)
  IN IF ~d.ok THEN d
     ELSE IF override # <<>> /\ env_target = <<>>
       THEN Ok([target  |-> PathJoin(project_dir, override[1]), default |-> <<d.val>>])
       ELSE Ok([target |-> d.val, default |-> <<d.val>>])

\* Variant of resolve_target_dir that computes the default destination before
\* the match and lets its error end the run.
resolve_target_dir_default_first(override, env_target, home) ==
  LET d == default_target_dir(env_target, home)
  IN IF ~d.ok THEN d
     ELSE IF override # <<>>
       THEN Ok([target  |-> PathJoin(project_dir, override[1]), default |-> <<d.val>>])
       ELSE Ok([target |-> d.val, default |-> <<d.val>>])

\* run_with_options, the match on override_raw: the pair <<target_dir, default_target>>
resolve_target_dir(override, env_target, home) ==
  LET d == default_target_dir(env_target, home)
  IN IF override # <<>>
       THEN Ok([target  |-> PathJoin(project_dir, override[1]),
                default |-> IF d.ok THEN <<d.val>> ELSE <<>>])
       ELSE IF ~d.ok THEN d
            ELSE Ok([target |-> d.val, default |-> <<d.val>>])

\* run_with_options, output flags and destination resolution
ResolveTarget ==
  /\ pc = "target"
  /\ \E quiet \in Read("quiet", BOOLEAN),
        summary \in Read("summary", {"Text", "Json", "JsonPretty"}),
        override \in Drawn(IF given = <<>> THEN <<>> ELSE <<given[1].override>>,
                           OverrideValues),
        env_target \in Drawn(IF given = <<>> THEN <<>> ELSE <<given[1].env_target>>,
                             EnvTargetValues),
        home \in Drawn(IF given = <<>> THEN <<>> ELSE <<given[1].home>>,
                       HomeValues) :
       LET r == resolve_target_dir(override, env_target, home)
       IN /\ override_raw' = override
          /\ summary_format' = summary
          /\ emit_text' = (summary = "Text" /\ ~quiet)
          /\ IF ~r.ok
               THEN /\ Return(r.err)
                    /\ UNCHANGED << default_target, target_dir >>
               ELSE /\ default_target' = r.val.default
                    /\ target_dir' = <<r.val.target>>
                    /\ pc' = "ensure"
                    /\ UNCHANGED result
  /\ UNCHANGED << callVars, destKind, envVars, project_type, loopVars, effectVars, outVars, exit_code >>

\* Variant of EnsureDir that checks the kind of an existing destination only
\* when an explicit override was given.
EnsureDirOverrideOnly ==
  /\ pc = "ensure"
  /\ IF destKind = "absent"
       THEN \E create_ok \in BOOLEAN :
              IF create_ok THEN /\ destKind' = "dir"
                                /\ pc' = "begin"
                                /\ UNCHANGED result
              ELSE /\ Return("CreateFailed")
                   /\ UNCHANGED destKind
       ELSE IF destKind # "dir" /\ override_raw # <<>>
              THEN /\ Return("NotADirectory")
                   /\ UNCHANGED destKind
              ELSE /\ pc' = "begin"
                   /\ UNCHANGED << result, destKind >>
  /\ UNCHANGED << callVars, envVars, project_type, loopVars, targetVars, effectVars,
                  outVars, exit_code >>

\* run_with_options, the destination must exist and be a directory
EnsureDir ==
  /\ pc = "ensure"
  /\ LET exists == destKind # "absent"
         is_dir == destKind = "dir"
     IN IF ~exists
          THEN \E create_ok \in BOOLEAN :
                 IF create_ok THEN /\ destKind' = "dir"
                                   /\ pc' = "begin"
                                   /\ UNCHANGED result
                 ELSE /\ Return("CreateFailed")
                      /\ UNCHANGED destKind
          ELSE IF ~is_dir THEN /\ Return("NotADirectory")
                               /\ UNCHANGED destKind
               ELSE /\ pc' = "begin"
                    /\ UNCHANGED << result, destKind >>
  /\ UNCHANGED << callVars, envVars, project_type, loopVars, targetVars, effectVars,
                  outVars, exit_code >>

\* run_with_options, the project-type line and the loop's initial locals
BeginCopy ==
  /\ pc = "begin"
  /\ \E write_ok \in BOOLEAN :
       IF emit_text /\ project_type = "Tauri" /\ ~write_ok
         THEN Return("WriteError")
         ELSE /\ pc' = "loop"
              /\ UNCHANGED result
  /\ copied_count' = 0
  /\ copied_binaries' = <<>>
  /\ failed_binaries' = <<>>
  /\ pending_self_update' = <<>>
  /\ UNCHANGED << callVars, destKind, envVars, project_type, built_executables, idx, targetVars,
                  effectVars, outVars, exit_code >>

\* ------------------------------------------------------------ copy engine

\* Path::canonicalize on <target_dir>/<n>: symlinks are resolved
Canonical(n) == IF aliased /\ n = 2 THEN 1 ELSE n

\* Variant of is_self_update_target that compares the paths as given, without
\* resolving symlinks.
is_self_update_target_raw(n, exe) ==
  IF exe = <<>> THEN FALSE ELSE exe[1] = n

\* is_self_update_target; exe is ctx.current_exe or std::env::current_exe(),
\* canonicalized, None when it cannot be determined
is_self_update_target(n, exe) ==
  IF exe = <<>> THEN FALSE ELSE exe[1] = Canonical(n)

FailedCopy(n, e) == [binary |-> n, error |-> e]

SkippedMessage == "Self-update skipped due to other failures"

\* Variant of DeferArtifact that runs the self-update at once, inside the loop.
DeferArtifactEager(n, write_ok, next_pc) ==
  /\ pending_self_update' = <<n>>
  /\ deferLog' = Append(deferLog, n)
  /\ selfUpdateLog' = Append(selfUpdateLog, [name |-> n, res |-> [state |-> "Spawned", msg |-> ""]])
  /\ updaterFile' = TRUE
  /\ helperSpawned' = <<[source |-> n, dest |-> n]>>
  /\ idx' = idx + 1
  /\ pc' = next_pc
  /\ UNCHANGED << result, copied_count, copied_binaries, failed_binaries,
                  destFiles, copyLog >>

\* run_with_options, loop body: the artifact is the running executable, defer it
DeferArtifact(n, write_ok, next_pc) ==
  /\ IF emit_text /\ ~write_ok
       THEN /\ Return("WriteError")
            /\ UNCHANGED << idx, pending_self_update, deferLog >>
       ELSE /\ pending_self_update' = <<n>>
            /\ deferLog' = Append(deferLog, n)
            /\ idx' = idx + 1
            /\ pc' = next_pc
            /\ UNCHANGED result
  /\ UNCHANGED << copied_count, copied_binaries, failed_binaries, destFiles,
                  copyLog, updaterFile, helperSpawned, selfUpdateLog >>

\* Variant of CopyFailed that gives up with the aggregate error when nothing
\* has been copied so far.
CopyFailedGiveUp(n, write_ok, next_pc) ==
  /\ copyLog' = Append(copyLog, [name |-> n, ok |-> FALSE])
  /\ failed_binaries' = Append(failed_binaries, FailedCopy(n, "Failed to copy"))
  /\ idx' = idx + 1
  /\ IF copied_count = 0
       THEN Return("CopiesFailed")
       ELSE /\ pc' = next_pc
            /\ UNCHANGED result
  /\ UNCHANGED << copied_count, copied_binaries, pending_self_update, destFiles,
                  deferLog, updaterFile, helperSpawned, selfUpdateLog >>

\* Variant of CopySucceeded that counts the copy before it writes the progress
\* line.
CopySucceededCountsFirst(n, write_ok, next_pc) ==
  /\ copyLog' = Append(copyLog, [name |-> n, ok |-> TRUE])
  /\ destFiles' = [destFiles EXCEPT ![Canonical(n)] = "new"]
  /\ copied_count' = copied_count + 1
  /\ copied_binaries' = Append(copied_binaries, n)
  /\ IF emit_text /\ ~write_ok
       THEN /\ Return("WriteError")
            /\ UNCHANGED idx
       ELSE /\ idx' = idx + 1
            /\ pc' = next_pc
            /\ UNCHANGED result
  /\ UNCHANGED << failed_binaries, pending_self_update, deferLog, updaterFile,
                  helperSpawned, selfUpdateLog >>

\* Variant of CopySucceeded in which a file an earlier copy has written is not
\* overwritten: the copy is recorded as failed.
CopySucceededNoOverwrite(n, write_ok, next_pc) ==
  IF destFiles[Canonical(n)] = "new"
    THEN /\ copyLog' = Append(copyLog, [name |-> n, ok |-> FALSE])
         /\ failed_binaries' = Append(failed_binaries, FailedCopy(n, "Failed to copy"))
         /\ idx' = idx + 1
         /\ pc' = next_pc
         /\ UNCHANGED << result, copied_count, copied_binaries, pending_self_update,
                         destFiles, deferLog, updaterFile, helperSpawned, selfUpdateLog >>
    ELSE /\ copyLog' = Append(copyLog, [name |-> n, ok |-> TRUE])
         /\ destFiles' = [destFiles EXCEPT ![Canonical(n)] = "new"]
         /\ copied_count' = copied_count + 1
         /\ copied_binaries' = Append(copied_binaries, n)
         /\ idx' = idx + 1
         /\ pc' = next_pc
         /\ UNCHANGED << result, failed_binaries, pending_self_update, deferLog,
                         updaterFile, helperSpawned, selfUpdateLog >>

\* run_with_options, loop body: fs::copy returned Ok
CopySucceeded(n, write_ok, next_pc) ==
  /\ copyLog' = Append(copyLog, [name |-> n, ok |-> TRUE])
  /\ destFiles' = [destFiles EXCEPT ![Canonical(n)] = "new"]
  /\ IF emit_text /\ ~write_ok
       THEN /\ Return("WriteError")
            /\ UNCHANGED << idx, copied_count, copied_binaries >>
       ELSE /\ copied_count' = copied_count + 1
            /\ copied_binaries' = Append(copied_binaries, n)
            /\ idx' = idx + 1
            /\ pc' = next_pc
            /\ UNCHANGED result
  /\ UNCHANGED << failed_binaries, pending_self_update, deferLog, updaterFile,
                  helperSpawned, selfUpdateLog >>

\* Variant of CopyFailed that rolls the destination back: the files copied so
\* far are restored to what they were before the run.
CopyFailedRollback(n, write_ok, next_pc) ==
  /\ copyLog' = Append(copyLog, [name |-> n, ok |-> FALSE])
  /\ destFiles' = [m \in Names |-> "stale"]
  /\ failed_binaries' = Append(failed_binaries, FailedCopy(n, "Failed to copy"))
  /\ idx' = idx + 1
  /\ pc' = next_pc
  /\ UNCHANGED << result, copied_count, copied_binaries, pending_self_update,
                  deferLog, updaterFile, helperSpawned, selfUpdateLog >>

\* Variant of CopyFailed that propagates the copy error at once, as the legacy
\* run of src/src/main.rs does.
CopyFailedFailFast(n, write_ok, next_pc) ==
  /\ copyLog' = Append(copyLog, [name |-> n, ok |-> FALSE])
  /\ Return("CopiesFailed")
  /\ UNCHANGED << idx, failed_binaries, copied_count, copied_binaries,
                  pending_self_update, destFiles, deferLog, updaterFile,
                  helperSpawned, selfUpdateLog >>

\* run_with_options, loop body: fs::copy returned Err
CopyFailed(n, write_ok, next_pc) ==
  /\ copyLog' = Append(copyLog, [name |-> n, ok |-> FALSE])
  /\ IF emit_text /\ ~write_ok
       THEN /\ Return("WriteError")
            /\ UNCHANGED << idx, failed_binaries >>
       ELSE /\ failed_binaries' = Append(failed_binaries, FailedCopy(n, "Failed to copy"))
            /\ idx' = idx + 1
            /\ pc' = next_pc
            /\ UNCHANGED result
  /\ UNCHANGED << copied_count, copied_binaries, pending_self_update, destFiles,
                  deferLog, updaterFile, helperSpawned, selfUpdateLog >>

\* run_with_options, one iteration of the for loop over built_executables
CopyStep ==
  /\ pc = "loop"
  /\ idx <= Len(built_executables)
  /\ LET n == built_executables[idx]
         next_pc == IF idx + 1 > Len(built_executables) THEN "post" ELSE "loop"
     IN \E copy_ok \in IF world = <<>> THEN BOOLEAN ELSE { n \in world[1].copyable },
           write_ok \in BOOLEAN :
          IF is_self_update_target(n, current_exe)
            THEN DeferArtifact(n, write_ok, next_pc)
            ELSE IF copy_ok THEN CopySucceeded(n, write_ok, next_pc)
                 ELSE CopyFailed(n, write_ok, next_pc)
  /\ UNCHANGED << callVars, destKind, envVars, project_type, built_executables, targetVars,
                  outVars, exit_code >>

\* The environment: another process moves or replaces what the running
\* executable's path resolves to while the run is in its copy phase.
ExeRelocated ==
  /\ pc \in {"loop", "post"}
  /\ ~relocated
  /\ relocated' = TRUE
  /\ current_exe' \in {<<>>, <<ElsewherePath>>, <<1>>} \ {current_exe}
  /\ UNCHANGED << callVars, destKind, pc, aliased, project_type, loopVars,
                  targetVars, effectVars, outVars, result, exit_code >>

\* ------------------------------------------------------------ self-update

SelfUpdateResult(state, msg) == [state |-> state, msg |-> msg]

\* try_self_update for the deferred artifact n
try_self_update(n, exe, temp_copy_ok, spawn_ok) ==
  IF exe = <<>> THEN SelfUpdateResult("NotApplicable", "")
  ELSE IF exe[1] # Canonical(n) THEN SelfUpdateResult("NotApplicable", "")
  ELSE IF ~temp_copy_ok THEN SelfUpdateResult("Failed", "copy self to temp")
  ELSE IF spawn_ok THEN SelfUpdateResult("Spawned", "")
  ELSE SelfUpdateResult("Failed", "spawn updater")

\* Variant of failed_after_self_update_failed that drops the failure.
failed_after_self_update_failed_dropped(failed, n) == failed

\* run_with_options, SelfUpdateResult::Failed arm: the failure list afterwards
failed_after_self_update_failed(failed, n) ==
  Append(failed, FailedCopy(n, "Failed to self-update"))

\* Variant of failed_after_not_applicable that treats the result as a no-op.
failed_after_not_applicable_noop(failed, n) == failed

\* run_with_options, SelfUpdateResult::NotApplicable arm: the failure list afterwards
failed_after_not_applicable(failed, n) ==
  Append(failed, FailedCopy(n, "Failed to copy: file in use"))

\* run_with_options, other failures exist: the failure list afterwards
failed_after_skipped(failed, n) ==
  Append(failed, FailedCopy(n, SkippedMessage))

\* Variant of self_update_allowed that ignores the other failures.
self_update_allowed_always(failed) == TRUE

\* run_with_options: the self-update is attempted only without other failures
self_update_allowed(failed) == failed = <<>>

\* run_with_options, the pending self-update after the loop
HandlePending ==
  /\ pc = "post"
  /\ IF pending_self_update = <<>>
       THEN /\ pc' = "text"
            /\ UNCHANGED << failed_binaries, updaterFile, helperSpawned,
                            selfUpdateLog, result >>
       ELSE LET n == pending_self_update[1]
            IN IF self_update_allowed(failed_binaries)
                 THEN \E temp_copy_ok, spawn_ok, write_ok \in BOOLEAN :
                        LET r == try_self_update(n, current_exe, temp_copy_ok, spawn_ok)
                        IN /\ selfUpdateLog' = Append(selfUpdateLog, [name |-> n, res |-> r])
                           /\ updaterFile' =
                                (updaterFile \/ r.state = "Spawned" \/ r.msg = "spawn updater")
                           /\ helperSpawned' =
                                IF r.state = "Spawned"
                                  THEN <<[source |-> n, dest |-> n]>>
                                  ELSE helperSpawned
                           /\ IF r.state = "Spawned"
                                THEN /\ IF emit_text /\ ~write_ok
                                          THEN Return("WriteError")
                                          ELSE Return("Ok")
                                     /\ UNCHANGED failed_binaries
                              ELSE IF r.state = "Failed"
                                THEN IF emit_text /\ ~write_ok
                                       THEN /\ Return("WriteError")
                                            /\ UNCHANGED failed_binaries
                                       ELSE /\ failed_binaries' =
                                                 failed_after_self_update_failed(failed_binaries, n)
                                            /\ pc' = "text"
                                            /\ UNCHANGED result
                              ELSE /\ failed_binaries' =
                                        failed_after_not_applicable(failed_binaries, n)
                                   /\ pc' = "text"
                                   /\ UNCHANGED result
                 ELSE \E write_ok \in BOOLEAN :
                        /\ IF emit_text /\ ~write_ok
                             THEN /\ Return("WriteError")
                                  /\ UNCHANGED failed_binaries
                             ELSE /\ failed_binaries' =
                                       failed_after_skipped(failed_binaries, n)
                                  /\ pc' = "text"
                                  /\ UNCHANGED result
                        /\ UNCHANGED << updaterFile, helperSpawned, selfUpdateLog >>
  /\ UNCHANGED << callVars, destKind, envVars, project_type, built_executables, idx, copied_count,
                  copied_binaries, pending_self_update, targetVars, destFiles,
                  copyLog, deferLog, outVars, exit_code >>

\* ---------------------------------------------------------------- summary

RedundantMessage ==
  "Resolved target matches default destination; override may be redundant."

\* Variant of build_override_note that warns whenever a default is known.
build_override_note_always_warn(raw, resolved, default) ==
  [warnings |-> IF default # <<>> THEN <<RedundantMessage>> ELSE <<>>]

\* build_override_note: the warnings of the note (its lines carry no state)
build_override_note(raw, resolved, default) ==
  [warnings |-> IF default # <<>> /\ default[1] = resolved
                  THEN <<RedundantMessage>>
                  ELSE <<>>]

\* run_with_options, the text summary and the itemized failures
TextSummary ==
  /\ pc = "text"
  /\ \E write_ok \in BOOLEAN :
       IF emit_text /\ ~write_ok
         THEN Return("WriteError")
         ELSE /\ pc' = "note"
              /\ UNCHANGED result
  /\ UNCHANGED << callVars, destKind, envVars, project_type, loopVars, targetVars, effectVars,
                  outVars, exit_code >>

\* run_with_options, the override note
OverrideNote ==
  /\ pc = "note"
  /\ IF override_raw = <<>>
       THEN /\ pc' = "json"
            /\ UNCHANGED << override_note, result >>
       ELSE LET note == build_override_note(override_raw[1], target_dir[1],
                                            default_target)
                writes == emit_text \/ note.warnings # <<>>
            IN \E write_ok \in BOOLEAN :
                 IF writes /\ ~write_ok
                   THEN /\ Return("WriteError")
                        /\ UNCHANGED override_note
                   ELSE /\ override_note' = <<note>>
                        /\ pc' = "json"
                        /\ UNCHANGED result
  /\ UNCHANGED << callVars, destKind, envVars, project_type, loopVars, targetVars, effectVars,
                  summaries, emitted, exit_code >>

\* Variant of summary_status that reports any run with a copied file as ok.
summary_status_lenient(failed, count) ==
  IF failed = <<>> \/ count > 0 THEN "ok" ELSE "failed"

\* run_with_options, the status tag of the summary
summary_status(failed, count) ==
  IF failed = <<>> THEN "ok"
  ELSE IF count > 0 THEN "partial"
  ELSE "failed"

\* DeploymentSummary as run_with_options fills it in
DeploymentSummary ==
  [ status          |-> summary_status(failed_binaries, copied_count),
    copied_count    |-> copied_count,
    target_dir      |-> target_dir[1].s,
    override_used   |-> override_raw # <<>>,
    copied_binaries |-> copied_binaries,
    failed_binaries |-> failed_binaries,
    warnings        |-> IF override_note = <<>> THEN <<>>
                        ELSE override_note[1].warnings ]

\* Variant of produce_json that forgets the pretty-printed format.
produce_json_compact_only(format) == format = "Json"

\* run_with_options, local produce_json
produce_json(format) == format \in {"Json", "JsonPretty"}

\* run_with_options, the JSON summary
JsonSummary ==
  /\ pc = "json"
  /\ IF produce_json(summary_format)
       THEN /\ summaries' = Append(summaries, DeploymentSummary)
            /\ \E write_ok \in BOOLEAN :
                 IF write_ok
                   THEN /\ emitted' = emitted + 1
                        /\ pc' = "final"
                        /\ UNCHANGED result
                   ELSE /\ Return("WriteError")
                        /\ UNCHANGED emitted
       ELSE /\ pc' = "final"
            /\ UNCHANGED << summaries, emitted, result >>
  /\ UNCHANGED << callVars, destKind, envVars, project_type, loopVars, targetVars, effectVars,
                  override_note, exit_code >>

\* Variant of final_result that lets a run with an itemized failure list pass.
final_result_lenient(failed) == "Ok"

\* run_with_options, the value returned after the summary
final_result(failed) == IF failed # <<>> THEN "CopiesFailed" ELSE "Ok"

\* run_with_options, the final result
FinalResult ==
  /\ pc = "final"
  /\ Return(final_result(failed_binaries))
  /\ UNCHANGED << callVars, destKind, envVars, project_type, loopVars, targetVars, effectVars,
                  outVars, exit_code >>

\* do_main_with_options: the exit code for a result of run_with_options
exit_code_of(r) == IF r = "Ok" THEN 0 ELSE 1

\* do_main_with_options, after run_with_options has returned
DoMainExit ==
  /\ pc = "returned"
  /\ exit_code' = <<exit_code_of(result[1])>>
  /\ pc' = "exited"
  /\ UNCHANGED << callVars, destKind, envVars, project_type, loopVars, targetVars, effectVars,
                  outVars, result >>

\* ------------------------------------------------------------ specification
Next ==
  \/ DetectProject
  \/ ReadManifest
  \/ FindBuilt
  \/ ResolveTarget
  \/ EnsureDir
  \/ BeginCopy
  \/ CopyStep
  \/ ExeRelocated
  \/ HandlePending
  \/ TextSummary
  \/ OverrideNote
  \/ JsonSummary
  \/ FinalResult
  \/ DoMainExit

Spec == Init /\ [][Next]_vars

\* the destination inputs a run can be given
GivenInputs ==
  [ override : OverrideValues, env_target : EnvTargetValues, home : HomeValues,
    kind : DestKinds ]

\* a run whose destination inputs (options.target_override, MD_TARGET_DIR, HOME
\* and what the destination path is on disk) are fixed before it starts
InitGiven ==
  /\ RunInit
  /\ current_exe = <<1>>
  /\ aliased = FALSE
  /\ given \in { <<g>> : g \in GivenInputs }
  /\ destKind = given[1].kind
  /\ call = <<>>
  /\ ret = <<>>
  /\ world = <<>>
  /\ first = <<>>
  /\ helper = <<>>
  /\ staleHelper = "none"

DestSpec == InitGiven /\ [][Next]_vars

\* ------------------------------------------------------------ command line
\* An argument is [head, value]: its text up to the first '=', and an Option
\* of the text after it (None: the argument has no '=').

Plain(text) == [head |-> text, value |-> <<>>]

WithValue(flag, v) == [head |-> flag, value |-> <<v>>]

FinishUpdateFlag == Plain("--finish-update")

\* the arguments the command line is examined on
ArgTokens ==
  { FinishUpdateFlag, Plain("-h"), Plain("-V"), Plain("-t"), Plain("-q"),
    Plain("--summary"), Plain("json"), Plain("--tauri"),
    Plain("/proj/target/release/app"), Plain("/home/u/.local/bin/app"),
    WithValue("--target", "") }

\* str == on an argument
Is(arg, texts) == arg.value = <<>> /\ arg.head \in texts

\* str::starts_with("<flag>=") on an argument
StartsWithFlag(arg, flag) == arg.value # <<>> /\ arg.head = flag

\* RunOptions::default()
DefaultRunOptions ==
  [ target_override |-> <<>>, quiet |-> FALSE, summary |-> "Text",
    profile |-> "Release", project_type |-> <<>> ]

Deploy(options) == [cmd |-> "Deploy", options |-> options]

FinishUpdate(source, dest) == [cmd |-> "FinishUpdate", source |-> source, dest |-> dest]

UnknownArgs(args) == [kind |-> "UnknownArgs", args |-> args]

MissingValue(flag) == [kind |-> "MissingValue", flag |-> flag]

InvalidValue(flag, value) == [kind |-> "InvalidValue", flag |-> flag, value |-> value]

\* parse_summary_format
parse_summary_format(value) ==
  IF value = "text" THEN <<"Text">>
  ELSE IF value = "json" THEN <<"Json">>
  ELSE IF value = "json-pretty" THEN <<"JsonPretty">>
  ELSE <<>>

RECURSIVE parse_options(_, _, _)
\* parse_args, the while loop over the arguments, from position index on
parse_options(args, index, options) ==
  IF index > Len(args) THEN Ok(Deploy(options))
  ELSE
    LET arg == args[index]
    IN IF Is(arg, {"-t", "--target"})
         THEN IF index + 1 > Len(args) THEN Err(MissingValue(arg.head))
              ELSE parse_options(args, index + 2,
                     [options EXCEPT !.target_override = <<args[index + 1]>>])
       ELSE IF Is(arg, {"-q", "--quiet"})
         THEN parse_options(args, index + 1, [options EXCEPT !.quiet = TRUE])
       ELSE IF Is(arg, {"--summary"})
         THEN IF index + 1 > Len(args) THEN Err(MissingValue(arg.head))
              ELSE LET value == args[index + 1]
                       format == IF value.value = <<>>
                                   THEN parse_summary_format(value.head)
                                   ELSE <<>>
                   IN IF format = <<>> THEN Err(InvalidValue(arg.head, value))
                      ELSE parse_options(args, index + 2,
                             [options EXCEPT !.summary = format[1]])
       ELSE IF StartsWithFlag(arg, "--target")
         THEN IF arg.value[1] = "" THEN Err(MissingValue("--target"))
              ELSE parse_options(args, index + 1,
                     [options EXCEPT !.target_override = <<Plain(arg.value[1])>>])
       ELSE IF StartsWithFlag(arg, "--summary")
         THEN IF arg.value[1] = "" THEN Err(MissingValue("--summary"))
              ELSE LET format == parse_summary_format(arg.value[1])
                   IN IF format = <<>>
                        THEN Err(InvalidValue("--summary", Plain(arg.value[1])))
                        ELSE parse_options(args, index + 1,
                               [options EXCEPT !.summary = format[1]])
       ELSE IF Is(arg, {"--release"})
         THEN parse_options(args, index + 1, [options EXCEPT !.profile = "Release"])
       ELSE IF Is(arg, {"--debug"})
         THEN parse_options(args, index + 1, [options EXCEPT !.profile = "Debug"])
       ELSE IF Is(arg, {"--tauri"})
         THEN parse_options(args, index + 1,
                [options EXCEPT !.project_type = <<"Tauri">>])
       ELSE IF Is(arg, {"--no-tauri"})
         THEN parse_options(args, index + 1,
                [options EXCEPT !.project_type = <<"Standard">>])
       ELSE Err(UnknownArgs(args))

\* Variant of parse_args that recognises the finish-update instruction when at
\* least two further arguments follow, and ignores the rest.
parse_args_at_least_two(args) ==
  IF args = <<>> THEN Ok(Deploy(DefaultRunOptions))
  ELSE IF Len(args) = 1 /\ Is(args[1], {"-h", "--help"}) THEN Ok([cmd |-> "ShowHelp"])
  ELSE IF Len(args) = 1 /\ Is(args[1], {"-V", "--version"}) THEN Ok([cmd |-> "ShowVersion"])
  ELSE IF Len(args) >= 3 /\ args[1] = FinishUpdateFlag
    THEN Ok(FinishUpdate(args[2], args[3]))
  ELSE parse_options(args, 1, DefaultRunOptions)

\* parse_args
parse_args(args) ==
  IF args = <<>> THEN Ok(Deploy(DefaultRunOptions))
  ELSE IF Len(args) = 1 /\ Is(args[1], {"-h", "--help"}) THEN Ok([cmd |-> "ShowHelp"])
  ELSE IF Len(args) = 1 /\ Is(args[1], {"-V", "--version"}) THEN Ok([cmd |-> "ShowVersion"])
  ELSE IF Len(args) = 3 /\ args[1] = FinishUpdateFlag
    THEN Ok(FinishUpdate(args[2], args[3]))
  ELSE parse_options(args, 1, DefaultRunOptions)

\* try_self_update, the arguments given to the spawned updater
updater_args(source_path, target_path) ==
  << FinishUpdateFlag, source_path, target_path >>

\* ------------------------------------------------------------ project layout
\* A configuration file of src-tauri is [kind, root, package]: "Absent",
\* "Unreadable" (it exists and cannot be read), "Undecodable", or "Json" with
\* the Options of a string productName at the root and under package.

ConfFiles ==
  [kind : {"Absent", "Unreadable", "Undecodable"}, root : {<<>>}, package : {<<>>}]
    \cup [kind : {"Json"}, root : Opt(Names), package : Opt(Names)]

\* Path::exists
Exists(file) == file.kind # "Absent"

\* read_tauri_product_name, the body of the loop for one file: Some(name) makes
\* the function return
product_name_in(file) ==
  IF file.kind # "Json" THEN <<>>
  ELSE IF file.root # <<>> THEN file.root
  ELSE file.package

\* read_tauri_product_name
read_tauri_product_name(tauri_conf, tauri_conf5) ==
  IF product_name_in(tauri_conf) # <<>> THEN product_name_in(tauri_conf)
  ELSE product_name_in(tauri_conf5)

\* BuildProfile::artifact_dir
artifact_dir(profile) == IF profile = "Release" THEN "release" ELSE "debug"

\* run_with_options up to the call of find_built_executables: the project
\* type, the directories and the extra names it works with
project_setup(opt, profile, tauri_cargo, tauri_conf, tauri_conf5) ==
  LET pt == project_type_of(opt, tauri_cargo, Exists(tauri_conf), Exists(tauri_conf5))
      rust_base_dir == IF pt = "Tauri" THEN PathJoin(project_dir, RelPath("src-tauri"))
                       ELSE project_dir
  IN [ project_type  |-> pt,
       rust_base_dir |-> rust_base_dir,
       cargo_path    |-> PathJoin(rust_base_dir, RelPath("Cargo.toml")),
       source_dir    |-> PathJoin(PathJoin(rust_base_dir, RelPath("target")),
                                  RelPath(artifact_dir(profile))),
       extra_names   |-> IF pt = "Tauri"
                           THEN read_tauri_product_name(tauri_conf, tauri_conf5)
                           ELSE <<>> ]

\* ---- the artifact-resolution functions, applied to given arguments
runVars == << pc, envVars, project_type, loopVars, targetVars, effectVars, outVars,
              result, exit_code, destKind, given, world, first, helper, staleHelper >>

\* the applications examined: manifest_bin_names on a manifest, and
\* find_built_executables followed by run_with_options' emptiness check on a
\* root manifest, the extra names and the files of the profile directory
ManifestCall(m) ==
  [fn |-> "manifest_bin_names", manifest |-> m, extra_names |-> <<>>,
   profile_files |-> {}]

FindCall(m, e, f) ==
  [fn |-> "find_built_executables", manifest |-> m, extra_names |-> e,
   profile_files |-> f]

ParseCall(a) == [fn |-> "parse_args", args |-> a]

ProjectCall(opt, profile, tauri_cargo, tauri_conf, tauri_conf5) ==
  [fn |-> "project_setup", opt |-> opt, profile |-> profile,
   tauri_cargo |-> tauri_cargo, tauri_conf |-> tauri_conf, tauri_conf5 |-> tauri_conf5]

InitCalls ==
  /\ RunInit
  /\ current_exe = <<>>
  /\ aliased = FALSE
  /\ destKind = "dir"
  /\ given = <<>>
  /\ \/ \E m \in BinManifests : call = <<ManifestCall(m)>>
     \/ \E m \in RootManifests, e \in Opt(Names), f \in SUBSET Names :
          call = <<FindCall(m, e, f)>>
     \/ \E a \in SeqsUpTo(ArgTokens, MaxArgs) : call = <<ParseCall(a)>>
     \/ \E opt \in Opt({"Standard", "Tauri"}), profile \in {"Release", "Debug"},
           tauri_cargo \in BOOLEAN, tauri_conf, tauri_conf5 \in ConfFiles :
          call = <<ProjectCall(opt, profile, tauri_cargo, tauri_conf, tauri_conf5)>>
  /\ ret = <<>>
  /\ world = <<>>
  /\ first = <<>>
  /\ helper = <<>>
  /\ staleHelper = "none"

\* manifest_bin_names applied to call.manifest
CallManifestBinNames ==
  /\ call # <<>>
  /\ ret = <<>>
  /\ call[1].fn = "manifest_bin_names"
  /\ ret' = <<manifest_bin_names(call[1].manifest)>>
  /\ UNCHANGED << call, runVars >>

\* find_built_executables applied to call.manifest, call.extra_names and the
\* files call.profile_files, then the emptiness check of run_with_options; the
\* HashSet yields the names in an arbitrary order
CallFindBuilt ==
  /\ call # <<>>
  /\ ret = <<>>
  /\ call[1].fn = "find_built_executables"
  /\ LET r == require_built(find_built_executables(
                 candidate_names_of(call[1].manifest, call[1].extra_names),
                 call[1].profile_files))
     IN IF r.ok THEN \E l \in Perms(r.val) : ret' = <<Ok(l)>>
        ELSE ret' = <<r>>
  /\ UNCHANGED << call, runVars >>

\* parse_args applied to call.args
CallParseArgs ==
  /\ call # <<>>
  /\ ret = <<>>
  /\ call[1].fn = "parse_args"
  /\ ret' = <<parse_args(call[1].args)>>
  /\ UNCHANGED << call, runVars >>

\* the start of run_with_options applied to call's options and project layout
CallProjectSetup ==
  /\ call # <<>>
  /\ ret = <<>>
  /\ call[1].fn = "project_setup"
  /\ ret' = <<project_setup(call[1].opt, call[1].profile, call[1].tauri_cargo,
                            call[1].tauri_conf, call[1].tauri_conf5)>>
  /\ UNCHANGED << call, runVars >>

NextCalls ==
  \/ CallManifestBinNames
  \/ CallFindBuilt
  \/ CallParseArgs
  \/ CallProjectSetup

CallSpec == InitCalls /\ [][NextCalls]_vars

\* ---- two runs, one after the other, in the same world
\* what a finished run leaves behind: its result, the counters and lists of the
\* copy engine (the lists without their order, which follows the HashSet's),
\* the status they give, and the destination files
Outcome ==
  [ result       |-> result[1],
    exit_code    |-> exit_code[1],
    copied_count |-> copied_count,
    copied       |-> { copied_binaries[i] : i \in DOMAIN copied_binaries },
    failed       |-> { failed_binaries[i] : i \in DOMAIN failed_binaries },
    status       |-> summary_status(failed_binaries, copied_count),
    deferred     |-> deferLog # <<>>,
    destFiles    |-> destFiles ]

\* the worlds the two runs are examined in: a standard project whose manifest
\* is found, read and decoded, with every name a candidate and built; which
\* destination files can be written and the summary format vary
TwiceWorlds ==
  [ project_type : {<<>>}, root_cargo : {TRUE},
    tauri_cargo : {FALSE}, tauri_conf : {FALSE}, tauri_conf5 : {FALSE},
    readable : {TRUE}, decodable : {TRUE},
    candidate_names : {Names}, profile_files : {Names},
    copyable : SUBSET Names,
    quiet : {FALSE}, summary : {"Text", "Json"} ]

\* the destination inputs of the two runs: the platform default, the
\* directory present or still to be created
TwiceGiven ==
  { g \in GivenInputs : /\ g.override = <<>>
                        /\ g.env_target = <<>>
                        /\ g.home # <<>>
                        /\ g.kind \in {"absent", "dir"} }

InitTwice ==
  /\ RunInit
  /\ current_exe = <<ElsewherePath>>
  /\ aliased = FALSE
  /\ given \in { <<g>> : g \in TwiceGiven }
  /\ destKind = given[1].kind
  /\ call = <<>>
  /\ ret = <<>>
  /\ world \in { <<w>> : w \in TwiceWorlds }
  /\ first = <<>>
  /\ helper = <<>>
  /\ staleHelper = "none"

\* do_main_with_options has returned; the tool is started a second time with
\* the same arguments.  The locals start afresh, the files stay.
RunAgain ==
  /\ pc = "exited"
  /\ world # <<>>
  /\ first = <<>>
  /\ first' = <<Outcome>>
  /\ pc' = "start"
  /\ project_type' = "Standard"
  /\ built_executables' = <<>>
  /\ idx' = 1
  /\ emit_text' = FALSE
  /\ summary_format' = "Text"
  /\ override_raw' = <<>>
  /\ default_target' = <<>>
  /\ target_dir' = <<>>
  /\ copied_count' = 0
  /\ copied_binaries' = <<>>
  /\ failed_binaries' = <<>>
  /\ pending_self_update' = <<>>
  /\ helperSpawned' = <<>>
  /\ copyLog' = <<>>
  /\ deferLog' = <<>>
  /\ selfUpdateLog' = <<>>
  /\ override_note' = <<>>
  /\ summaries' = <<>>
  /\ emitted' = 0
  /\ result' = <<>>
  /\ exit_code' = <<>>
  /\ UNCHANGED << envVars, destFiles, updaterFile, destKind, given, call, ret, world,
                  helper, staleHelper >>

NextTwice ==
  \/ Next
  \/ RunAgain

TwiceSpec == InitTwice /\ [][NextTwice]_vars

\* ---- one process of the tool, from its start to its exit
\* the number of copy attempts of the helper's retry loop
UpdateAttempts == 3

\* what the process does besides running run_with_options
processVars == << envVars, project_type, loopVars, targetVars, effectVars, outVars,
                  result, destKind, given, call, ret, world, first >>

\* a process that has just been started: the platform default destination, a
\* directory; the running executable is the first artifact's destination
InitProcess ==
  /\ pc = "main"
  /\ FreshRun
  /\ current_exe = <<1>>
  /\ aliased = FALSE
  /\ given \in { <<g>> : g \in { t \in TwiceGiven : t.kind = "dir" } }
  /\ destKind = given[1].kind
  /\ call = <<>>
  /\ ret = <<>>
  /\ world = <<>>
  /\ first = <<>>
  /\ helper = <<>>
  /\ staleHelper \in {"none", "stale"}

\* main: the arguments are parsed and the command is dispatched
Main ==
  /\ pc = "main"
  /\ \E args \in SeqsUpTo(ArgTokens, MaxArgs) :
       LET r == parse_args(args)
       IN IF ~r.ok
            THEN /\ pc' = "exited"
                 /\ exit_code' = <<1>>
                 /\ UNCHANGED helper
          ELSE IF r.val.cmd = "FinishUpdate"
            THEN /\ pc' = "helper"
                 /\ helper' = <<[source |-> r.val.source, dest |-> r.val.dest,
                                 attempts |-> 0, copied |-> FALSE]>>
                 /\ UNCHANGED exit_code
          ELSE IF r.val.cmd = "Deploy"
            THEN /\ pc' = "cleanup"
                 /\ UNCHANGED << helper, exit_code >>
          ELSE /\ pc' = "exited"
               /\ exit_code' = <<0>>
               /\ UNCHANGED helper
  /\ UNCHANGED << processVars, staleHelper >>

\* Variant of CleanStale that treats a failed deletion as an error of the run.
CleanStaleStrict ==
  /\ pc = "cleanup"
  /\ IF staleHelper = "stale"
       THEN \E delete_ok \in BOOLEAN :
              IF delete_ok THEN /\ staleHelper' = "deleted"
                                /\ pc' = "start"
                                /\ UNCHANGED exit_code
              ELSE /\ staleHelper' = "kept"
                   /\ pc' = "exited"
                   /\ exit_code' = <<1>>
       ELSE /\ pc' = "start"
            /\ UNCHANGED << staleHelper, exit_code >>
  /\ UNCHANGED << processVars, helper >>

\* a normal start: the stale temp helper file of an earlier update is deleted,
\* best effort
CleanStale ==
  /\ pc = "cleanup"
  /\ IF staleHelper = "stale"
       THEN \E delete_ok \in BOOLEAN :
              staleHelper' = IF delete_ok THEN "deleted" ELSE "kept"
       ELSE UNCHANGED staleHelper
  /\ pc' = "start"
  /\ UNCHANGED << processVars, helper, exit_code >>

\* Variant of HelperAttempt that gives up after the first failed attempt.
HelperAttemptOnce ==
  /\ pc = "helper"
  /\ \E copy_ok \in BOOLEAN :
       /\ helper' = <<[helper[1] EXCEPT !.attempts = @ + 1, !.copied = copy_ok]>>
       /\ pc' = "exited"
       /\ exit_code' = <<IF copy_ok THEN 0 ELSE 1>>
  /\ UNCHANGED << processVars, staleHelper >>

\* the helper's retry loop, one attempt to copy source to dest; after a failed
\* attempt that is not the last the helper waits and tries again
HelperAttempt ==
  /\ pc = "helper"
  /\ \E copy_ok \in BOOLEAN :
       LET attempt == helper[1].attempts + 1
       IN /\ helper' = <<[helper[1] EXCEPT !.attempts = attempt, !.copied = copy_ok]>>
          /\ IF copy_ok
               THEN /\ pc' = "exited"
                    /\ exit_code' = <<0>>
               ELSE IF attempt >= UpdateAttempts
                 THEN /\ pc' = "exited"
                      /\ exit_code' = <<1>>
                 ELSE UNCHANGED << pc, exit_code >>
  /\ UNCHANGED << processVars, staleHelper >>

NextProcess ==
  \/ Main
  \/ CleanStale
  \/ HelperAttempt
  \/ Next

\* the helper is a running process: its loop goes on until it exits
ProcessSpec == InitProcess /\ [][NextProcess]_vars /\ WF_vars(HelperAttempt)

\* ============================================================= properties

Range(s) == { s[i] : i \in DOMAIN s }

Returned == result # <<>>

WriteFailed == result = <<"WriteError">>

\* the run returned Ok or the aggregate copy error: it was not cut short by a
\* resolution error or by a failed write to stdout/stderr
RanToEnd == Returned /\ result[1] \in {"Ok", "CopiesFailed"}

SomeCopyFailed == \E i \in DOMAIN copyLog : ~copyLog[i].ok

AttemptedNames == { copyLog[i].name : i \in DOMAIN copyLog }

Processed == Range(deferLog) \cup AttemptedNames

HasFailure(n, e) ==
  \E i \in DOMAIN failed_binaries : failed_binaries[i] = FailedCopy(n, e)

CountFailures(n) ==
  Cardinality({ i \in DOMAIN failed_binaries : failed_binaries[i].binary = n })

PositionOf(n) == CHOOSE i \in DOMAIN built_executables : built_executables[i] = n

\* ---- C1
\* C1 as stated: in every finished run in which an artifact was deferred and a
\* non-deferred copy failed, try_self_update was not invoked and the deferred
\* artifact is in the failure list with the "skipped" message.
C1_Original ==
  (Returned /\ pending_self_update # <<>> /\ SomeCopyFailed)
    => /\ selfUpdateLog = <<>>
       /\ HasFailure(pending_self_update[1], SkippedMessage)

\* C1 (amended): whenever an artifact is deferred and a non-deferred copy has
\* failed, try_self_update has not been invoked, no temp helper was written
\* and no helper spawned; and if the run was not cut short by a failed output
\* write, the deferred artifact is in the failure list exactly once, with the
\* message "Self-update skipped due to other failures".
C1_SelfUpdateExclusive ==
  (pending_self_update # <<>> /\ SomeCopyFailed)
    => /\ selfUpdateLog = <<>>
       /\ ~updaterFile
       /\ helperSpawned = <<>>
       /\ (Returned /\ ~WriteFailed)
            => /\ HasFailure(pending_self_update[1], SkippedMessage)
               /\ CountFailures(pending_self_update[1]) = 1

\* a run that deferred an artifact, then had a later copy fail, and ended
\* with the deferred artifact reported as skipped
C1_Witness ==
  /\ result = <<"CopiesFailed">>
  /\ pending_self_update # <<>>
  /\ HasFailure(pending_self_update[1], SkippedMessage)
  /\ \E i \in DOMAIN copyLog :
       /\ ~copyLog[i].ok
       /\ PositionOf(copyLog[i].name) > PositionOf(pending_self_update[1])

\* ---- C2
\* C2 as stated: once the loop has been entered, every resolved artifact ends
\* up deferred or copy-attempted, and every failed copy has a failure record.
C2_Original ==
  (Returned /\ (copyLog # <<>> \/ deferLog # <<>>))
    => /\ Range(built_executables) \subseteq Processed
       /\ \A i \in DOMAIN copyLog :
            ~copyLog[i].ok => HasFailure(copyLog[i].name, "Failed to copy")

\* C2 (amended): in every run that is not cut short by a failed output write,
\* every resolved artifact is either deferred or has a copy attempted, exactly
\* once and in list order; a failed copy appends one failure record (name and
\* error) and the artifacts after it are still attempted.
C2_NoFailFast ==
  /\ (pc \in {"loop", "post", "text", "note", "json", "final"})
       => /\ Len(copyLog) + Len(deferLog) = idx - 1
          /\ Processed = { built_executables[i] : i \in 1..(idx - 1) }
  /\ RanToEnd
       => /\ Range(built_executables) = Processed
          /\ Len(copyLog) + Len(deferLog) = Len(built_executables)
          /\ \A i \in DOMAIN copyLog :
               IF copyLog[i].ok
                 THEN copyLog[i].name \in Range(copied_binaries)
                 ELSE /\ HasFailure(copyLog[i].name, "Failed to copy")
                      /\ CountFailures(copyLog[i].name) = 1

\* a finished run whose first copy failed and whose second copy succeeded
C2_Witness ==
  /\ RanToEnd
  /\ Len(copyLog) >= 2
  /\ ~copyLog[1].ok
  /\ copyLog[2].ok
  /\ copyLog[2].name \in Range(copied_binaries)

\* ---- C3
\* C3 as stated, read for the runs in which every output write succeeds: when
\* an artifact's destination is the running executable and no other artifact
\* fails, the run spawns the helper and exits with code 0.
C3_Original ==
  (exit_code # <<>> /\ ~WriteFailed /\ pending_self_update # <<>> /\ ~SomeCopyFailed)
    => /\ exit_code = <<0>>
       /\ updaterFile
       /\ helperSpawned # <<>>

\* the main process's fs::copy never writes the path the running executable
\* resolves to
C3_NoSelfOverwrite ==
  [][\A n \in Names : destFiles'[n] # destFiles[n] => current_exe # <<n>>]_vars

\* once the helper is spawned the run has returned, without a summary and
\* without any later step, and its result is Ok unless the progress line
\* could not be written
C3_HandOff ==
  helperSpawned # <<>>
    => /\ updaterFile
       /\ pc \in {"returned", "exited"}
       /\ summaries = <<>>
       /\ result \in {<<"Ok">>, <<"WriteError">>}
       /\ (exit_code # <<>> /\ ~WriteFailed) => exit_code = <<0>>

\* C3 (amended): the main process never writes to the destination path that
\* is the running executable; when the temp copy and the helper spawn both
\* succeed, the run returns at once without waiting for the helper, with
\* success (exit code 0) unless the progress line could not be written.
C3_SelfUpdateHandOff == []C3_HandOff /\ C3_NoSelfOverwrite

\* a run that copied another artifact, spawned the helper and exited with 0
C3_Witness ==
  /\ helperSpawned # <<>>
  /\ exit_code = <<0>>
  /\ copyLog # <<>>
  /\ \A n \in Names : current_exe = <<n>> => destFiles[n] = "stale"

\* ---- C4
C4_AfterAllCopies ==
  (selfUpdateLog # <<>> \/ updaterFile \/ helperSpawned # <<>>)
    => /\ pc \notin {"start", "read", "find", "target", "ensure", "begin", "loop"}
       /\ idx = Len(built_executables) + 1
       /\ Range(built_executables) \subseteq Processed

C4_NoCopyAfterSelfUpdate ==
  [][(selfUpdateLog # <<>> \/ helperSpawned # <<>>)
        => (copyLog' = copyLog /\ destFiles' = destFiles)]_vars

\* C4: the loop only records the deferred artifact; try_self_update (temp copy
\* and helper spawn) happens only after every artifact has been deferred or
\* copy-attempted, and no copy is attempted once it has been invoked.
C4_SelfUpdateLast == []C4_AfterAllCopies /\ C4_NoCopyAfterSelfUpdate

\* the deferred artifact came first in the list, the others were copied, and
\* only then the helper was spawned
C4_Witness ==
  /\ helperSpawned # <<>>
  /\ Len(built_executables) >= 2
  /\ built_executables[1] = helperSpawned[1].dest
  /\ Len(copyLog) = Len(built_executables) - 1

\* ---- C5
NotApplicableNames ==
  { selfUpdateLog[i].name :
      i \in { j \in DOMAIN selfUpdateLog : selfUpdateLog[j].res.state = "NotApplicable" } }

FailedSelfUpdateNames ==
  { selfUpdateLog[i].name :
      i \in { j \in DOMAIN selfUpdateLog : selfUpdateLog[j].res.state = "Failed" } }

\* C6 as stated: a failed self-update is recorded as one failure of the
\* deferred artifact, the run returns an error, and there is no second call.
C6_Original ==
  /\ Len(selfUpdateLog) <= 1
  /\ Returned
       => \A n \in FailedSelfUpdateNames :
            /\ HasFailure(n, "Failed to self-update")
            /\ CountFailures(n) = 1
            /\ result # <<"Ok">>

\* C6 (amended): try_self_update is invoked at most once per run; when it
\* fails (temp copy or spawn) no helper runs, the run returns an error, and
\* unless the run is cut short by a failed output write, the deferred
\* artifact is recorded as one failure, the only one in the list.
C6_FailedSelfUpdate ==
  /\ Len(selfUpdateLog) <= 1
  /\ \A n \in FailedSelfUpdateNames :
       /\ helperSpawned = <<>>
       /\ Returned => result \in {<<"CopiesFailed">>, <<"WriteError">>}
       /\ exit_code # <<0>>
       /\ (Returned /\ ~WriteFailed)
            => failed_binaries = <<FailedCopy(n, "Failed to self-update")>>

\* a run whose helper could not be spawned after the temp copy was written
C6_Witness ==
  /\ FailedSelfUpdateNames # {}
  /\ updaterFile
  /\ result = <<"CopiesFailed">>
  /\ exit_code = <<1>>
  /\ Len(failed_binaries) = 1

\* ---- C7
SomeCopyOk == \E i \in DOMAIN copyLog : copyLog[i].ok

\* C7: every summary has status ok exactly when its failure list is empty,
\* partial exactly when it lists a failure and a copy succeeded, failed
\* exactly when it lists a failure and no copy succeeded; its count is the
\* number of successful copies, and a failed, skipped or not-applicable
\* self-update is among the failures.
C7_SummaryStatus ==
  \A i \in DOMAIN summaries :
    LET sm == summaries[i]
    IN /\ sm.status \in {"ok", "partial", "failed"}
       /\ sm.status = "ok" <=> sm.failed_binaries = <<>>
       /\ sm.status = "partial" <=> (sm.failed_binaries # <<>> /\ SomeCopyOk)
       /\ sm.status = "failed" <=> (sm.failed_binaries # <<>> /\ ~SomeCopyOk)
       /\ sm.copied_count = Cardinality({ j \in DOMAIN copyLog : copyLog[j].ok })
       /\ sm.copied_count = Len(sm.copied_binaries)
       /\ (selfUpdateLog # <<>> \/ (pending_self_update # <<>> /\ SomeCopyFailed))
            => /\ sm.status # "ok"
               /\ \E j \in DOMAIN sm.failed_binaries :
                    sm.failed_binaries[j].binary = pending_self_update[1]

\* a partial summary: one copy succeeded, one failed, the self-update skipped
C7_Witness ==
  /\ Len(summaries) = 1
  /\ summaries[1].status = "partial"
  /\ summaries[1].copied_count >= 1
  /\ \E j \in DOMAIN summaries[1].failed_binaries :
       summaries[1].failed_binaries[j].error = SkippedMessage

\* ---- C8
\* C8 as stated: the exit code is 0 exactly when there was no configuration
\* or resolution error and the failure list ended empty.
C8_Original ==
  exit_code # <<>>
    => (exit_code = <<0>>
          <=> (result[1] \notin ResolutionErrors /\ failed_binaries = <<>>))

\* C8 (amended): the exit code is 0 exactly when there was no configuration
\* or resolution error, no write to stdout/stderr failed, and the failure
\* list ended empty (which includes the run that spawned the helper); it is 1
\* otherwise, in particular after a partial success.
C8_ExitCode ==
  exit_code # <<>>
    => /\ exit_code \in {<<0>>, <<1>>}
       /\ exit_code = <<0>>
            <=> /\ result[1] \notin ResolutionErrors
                /\ ~WriteFailed
                /\ failed_binaries = <<>>
       /\ (failed_binaries # <<>> /\ copied_count > 0) => exit_code = <<1>>
       /\ (helperSpawned # <<>> /\ ~WriteFailed) => exit_code = <<0>>

\* a partial success exits with 1
C8_Witness ==
  /\ exit_code = <<1>>
  /\ result = <<"CopiesFailed">>
  /\ copied_count > 0
  /\ failed_binaries # <<>>

\* ---- C9
JsonRun == summary_format \in {"Json", "JsonPretty"}

C10_ErrorPhases ==
  /\ (pc \in {"start", "read", "find", "target", "ensure", "begin"}
        \/ (Returned /\ result[1] \in ResolutionErrors))
       => /\ copyLog = <<>>
          /\ deferLog = <<>>
          /\ selfUpdateLog = <<>>
          /\ ~updaterFile
          /\ helperSpawned = <<>>
          /\ \A n \in Names : destFiles[n] = "stale"
  /\ result = <<"CopiesFailed">>
       => /\ idx = Len(built_executables) + 1
          /\ Range(built_executables) \subseteq Processed
          /\ failed_binaries # <<>>
          /\ pending_self_update # <<>> => CountFailures(pending_self_update[1]) = 1
  /\ (RanToEnd /\ SomeCopyFailed) => result = <<"CopiesFailed">>

\* the first copy failed, the rest of the list was still processed, and the
\* aggregate error came out at the end
C10_Witness ==
  /\ result = <<"CopiesFailed">>
  /\ Len(copyLog) >= 2
  /\ ~copyLog[1].ok
  /\ deferLog # <<>>
  /\ Len(failed_binaries) >= 2

\* ---- C11
CopiedFiles == { Canonical(copyLog[i].name) : i \in { j \in DOMAIN copyLog : copyLog[j].ok } }

\* C11: no rollback.  In every state of a run, also after a later copy has
\* failed, after the self-update has failed or been skipped, and after the run
\* has returned an error, every file a successful copy has written still has
\* its new contents, and every other destination file is as it was before
\* the run: nothing is removed or restored.
C11_NoRollback ==
  \A n \in Names :
    destFiles[n] = (IF n \in CopiedFiles THEN "new" ELSE "stale")

\* a run that copied one artifact, then had a copy fail and the self-update
\* skipped, returned the aggregate error, and left the copied file in place
C11_Witness ==
  /\ result = <<"CopiesFailed">>
  /\ Len(copyLog) >= 2
  /\ copyLog[1].ok
  /\ ~copyLog[2].ok
  /\ destFiles[Canonical(copyLog[1].name)] = "new"
  /\ pending_self_update # <<>>
  /\ HasFailure(pending_self_update[1], SkippedMessage)

\* ---- C12
Resolved == target_dir # <<>>

\* C12: destination precedence.  Whenever a run has resolved its destination:
\* with an explicit override the destination is the override, joined onto the
\* project directory when relative and verbatim when absolute, whatever
\* MD_TARGET_DIR and HOME are; without one it is the value of MD_TARGET_DIR when
\* that is set; otherwise it is $HOME/.local/bin.  A run with an explicit
\* override never fails on MD_TARGET_DIR or HOME.
C12_Precedence ==
  given # <<>> =>
    LET g == given[1]
    IN /\ Resolved =>
            target_dir[1] =
              IF g.override # <<>>
                THEN IF g.override[1].abs
                       THEN g.override[1]
                       ELSE [abs |-> TRUE, s |-> "/proj/" \o g.override[1].s]
                ELSE IF g.env_target # <<>>
                  THEN g.env_target[1]
                  ELSE [abs |-> TRUE, s |-> g.home[1].s \o "/.local/bin"]
       /\ (g.override # <<>> /\ pc \notin {"start", "read", "find", "target"}
             /\ result \notin {<<"NoCargoToml">>, <<"ReadFailed">>, <<"ParseFailed">>,
                               <<"NoPackages">>, <<"NoBuilt">>})
            => Resolved

\* a run given a relative override while MD_TARGET_DIR and HOME are both set
\* copies into <project_dir>/<override>
C12_Witness ==
  /\ given # <<>>
  /\ given[1].override = <<RelPath("custom/bin")>>
  /\ given[1].env_target = <<AbsPath("/env/bin")>>
  /\ given[1].home # <<>>
  /\ target_dir = <<AbsPath("/proj/custom/bin")>>
  /\ \E i \in DOMAIN copyLog : copyLog[i].ok

\* ---- C13
\* the run has executed the destination resolution step
TargetAttempted ==
  /\ pc \notin {"start", "read", "find", "target"}
  /\ result \notin {<<"NoCargoToml">>, <<"ReadFailed">>, <<"ParseFailed">>,
                    <<"NoPackages">>, <<"NoBuilt">>}

\* C13: without an explicit override, a run whose MD_TARGET_DIR is set but
\* empty returns the empty-override error, whatever HOME is, instead of
\* falling through to the default; a run whose MD_TARGET_DIR is unset and whose
\* HOME is absent returns the home-not-set error.  A run that returned either
\* error resolved no destination, left the destination path as it was on disk
\* (no directory created) and attempted or deferred no copy.
C13_ResolutionErrors ==
  given # <<>> =>
    LET g == given[1]
    IN /\ (TargetAttempted /\ g.override = <<>> /\ g.env_target # <<>>
             /\ g.env_target[1].s = "")
            => result = <<"EmptyOverrideVariable">>
       /\ (TargetAttempted /\ g.override = <<>> /\ g.env_target = <<>>
             /\ g.home = <<>>)
            => result = <<"HomeNotSet">>
       /\ (result = <<"EmptyOverrideVariable">> \/ result = <<"HomeNotSet">>)
            => /\ g.override = <<>>
               /\ target_dir = <<>>
               /\ destKind = g.kind
               /\ copyLog = <<>>
               /\ deferLog = <<>>
               /\ \A n \in Names : destFiles[n] = "stale"

\* MD_TARGET_DIR set but empty while HOME is set and the destination does not
\* exist: the run has ended with the empty-override error and created nothing
C13_Witness ==
  /\ given # <<>>
  /\ given[1].override = <<>>
  /\ given[1].env_target = <<RelPath("")>>
  /\ given[1].home # <<>>
  /\ given[1].kind = "absent"
  /\ exit_code = <<1>>
  /\ result = <<"EmptyOverrideVariable">>
  /\ destKind = "absent"

\* ---- C14
\* the run has executed the existence check of the resolved destination
EnsureAttempted ==
  /\ TargetAttempted
  /\ pc # "ensure"
  /\ result \notin {<<"EmptyOverrideVariable">>, <<"HomeNotSet">>}

\* C14: once the destination is resolved, from an override or from the
\* default alike: a path that did not exist has either been created as a
\* directory or the run has ended with the create-failed error; a path that
\* existed but was not a directory has ended the run with the not-a-directory
\* error and is untouched; an existing directory is kept.  Whenever the run is
\* in or past the copy loop, or has attempted or deferred a copy, the
\* destination exists and is a directory.
C14_DestinationIsDirectory ==
  given # <<>> =>
    LET g == given[1]
    IN /\ EnsureAttempted =>
            /\ g.kind = "absent" =>
                 \/ result = <<"CreateFailed">> /\ destKind = "absent"
                 \/ result # <<"CreateFailed">> /\ destKind = "dir"
            /\ g.kind = "file" => result = <<"NotADirectory">> /\ destKind = "file"
            /\ g.kind = "dir" => destKind = "dir"
            /\ result = <<"CreateFailed">> => g.kind = "absent"
            /\ result = <<"NotADirectory">> => g.kind = "file"
       /\ ~EnsureAttempted => destKind = g.kind
       /\ (pc \in {"begin", "loop", "post", "text", "note", "json", "final"}
             \/ copyLog # <<>> \/ deferLog # <<>>)
            => destKind = "dir"

\* a run without an override whose default destination did not exist, created
\* it, and is copying into it
C14_Witness ==
  /\ given # <<>>
  /\ given[1].override = <<>>
  /\ given[1].kind = "absent"
  /\ destKind = "dir"
  /\ pc = "loop"
  /\ \E i \in DOMAIN copyLog : copyLog[i].ok

\* ---- C15
\* the application under examination is of find_built_executables and has returned
FindReturned ==
  /\ call # <<>>
  /\ call[1].fn = "find_built_executables"
  /\ ret # <<>>

\* the entries of workspace.members whose manifest could be read and decoded
UsableMembers(manifest) ==
  IF manifest.members = <<>> THEN {}
  ELSE { manifest.members[1][i].data[1] :
           i \in { j \in DOMAIN manifest.members[1] :
                     manifest.members[1][j].kind = "Manifest" } }

\* the candidate name set of an application: the names of the root manifest,
\* the extra names, and the names of the usable members
CandidateSet(c) ==
  Range(manifest_bin_names(c.manifest))
    \cup Range(c.extra_names)
    \cup UNION { Range(manifest_bin_names(m)) : m \in UsableMembers(c.manifest) }

\* C15: artifact resolution fails with 'No packages or bins found' exactly
\* when the candidate name set is empty, and with 'No built executables
\* found' exactly when the candidate set is not empty but no candidate has an
\* executable in the profile directory; in every other case it succeeds.
C15_NothingToDeploy ==
  FindReturned =>
    LET candidates == CandidateSet(call[1])
        built == candidates \cap call[1].profile_files
    IN /\ (ret[1] = Err("NoPackages")) <=> (candidates = {})
       /\ (ret[1] = Err("NoBuilt")) <=> (candidates # {} /\ built = {})
       /\ ret[1].ok <=> (built # {})

\* a workspace whose members declare names, none of which is built although
\* the profile directory holds other files: 'No built executables found'
C15_Witness ==
  /\ FindReturned
  /\ ret[1] = Err("NoBuilt")
  /\ UsableMembers(call[1].manifest) # {}
  /\ CandidateSet(call[1]) # {}
  /\ call[1].profile_files # {}

\* ---- C16
\* C16: the list find_built_executables returns holds exactly the candidate
\* names whose executable exists in the profile directory: every name in it
\* is a candidate with a built file, no candidate with a built file is
\* missing, and a file that belongs to no candidate adds nothing.
C16_ExactlyBuilt ==
  (FindReturned /\ ret[1].ok) =>
    LET candidates == CandidateSet(call[1])
        list == ret[1].val
    IN /\ \A i \in DOMAIN list :
            list[i] \in candidates /\ list[i] \in call[1].profile_files
       /\ \A n \in candidates :
            n \in call[1].profile_files => \E i \in DOMAIN list : list[i] = n
       /\ \A n \in call[1].profile_files \ candidates :
            ~(\E i \in DOMAIN list : list[i] = n)

\* three packages of a workspace (the root and two members) of which the
\* first and the third are built: exactly these two are returned
C16_Witness ==
  /\ FindReturned
  /\ CandidateSet(call[1]) = {1, 2, 3}
  /\ Cardinality(UsableMembers(call[1].manifest)) = 2
  /\ call[1].profile_files = {1, 3}
  /\ ret[1].ok
  /\ Range(ret[1].val) = {1, 3}

\* ---- C17
IsUsable(member) == member.kind = "Manifest"

\* the manifest with the unusable entries of workspace.members taken out
WithoutUnusable(manifest) ==
  IF manifest.members = <<>> THEN manifest
  ELSE [manifest EXCEPT !.members = <<SelectSeq(manifest.members[1], IsUsable)>>]

HasUnusable(manifest) ==
  /\ manifest.members # <<>>
  /\ \E i \in DOMAIN manifest.members[1] : ~IsUsable(manifest.members[1][i])

\* C17: a workspace.members entry that is not a string, whose Cargo.toml
\* cannot be read, or whose Cargo.toml does not decode is skipped silently:
\* artifact resolution returns what it returns for the same workspace without
\* these entries (the same error, or the same names), so the entry adds no
\* name, raises no error, and takes no name of the root manifest, the extra
\* names or the other members away.
C17_MembersSkipped ==
  (FindReturned /\ HasUnusable(call[1].manifest)) =>
    LET without == require_built(find_built_executables(
                     candidate_names_of(WithoutUnusable(call[1].manifest),
                                        call[1].extra_names),
                     call[1].profile_files))
    IN /\ ret[1].ok = without.ok
       /\ ret[1].ok => Range(ret[1].val) = without.val
       /\ ~ret[1].ok => ret[1].err = without.err

\* a workspace whose first member cannot be used and whose second member
\* declares a built package that nothing else declares: the name is returned
C17_Witness ==
  /\ FindReturned
  /\ call[1].manifest.members # <<>>
  /\ Len(call[1].manifest.members[1]) = 2
  /\ call[1].manifest.members[1][1].kind = "Undecodable"
  /\ call[1].manifest.members[1][2].kind = "Manifest"
  /\ call[1].manifest.members[1][2].data[1].package = <<2>>
  /\ call[1].manifest.package = <<1>>
  /\ call[1].manifest.bin = <<>>
  /\ call[1].extra_names = <<>>
  /\ ret[1].ok
  /\ Range(ret[1].val) = {1, 2}

\* ---- C18
\* the application under examination is of manifest_bin_names and has returned
ManifestReturned ==
  /\ call # <<>>
  /\ call[1].fn = "manifest_bin_names"
  /\ ret # <<>>

\* the [[bin]] entries of a manifest, none when it declares no array
DeclaredBins(manifest) == IF manifest.bin = <<>> THEN <<>> ELSE manifest.bin[1]

\* what the claim lets one entry contribute: its name, else the stem of its
\* path, else nothing
Contribution(b) ==
  IF b.name # <<>> THEN b.name
  ELSE IF b.path # <<>> /\ b.path[1].file # <<>> THEN <<b.path[1].file[1].stem>>
  ELSE <<>>

Occurrences(list, n) == Cardinality({ i \in DOMAIN list : list[i] = n })

\* C19: names are deduplicated.  manifest_bin_names does not add the package
\* name when a [[bin]] entry has already contributed it, so the package name
\* adds no second occurrence; and however often a name is declared (by [[bin]]
\* entries, as the package name, by several workspace members, as the extra
\* product name), it occurs at most once in the list artifact resolution
\* returns, which is the list the copy loop goes through once.
C19_Deduplicated ==
  /\ (ManifestReturned /\ call[1].manifest.package # <<>>) =>
       LET bins == DeclaredBins(call[1].manifest)
           p == call[1].manifest.package[1]
           declaring == { i \in DOMAIN bins : Contribution(bins[i]) = <<p>> }
       IN Occurrences(ret[1], p) =
            IF declaring = {} THEN 1 ELSE Cardinality(declaring)
  /\ (FindReturned /\ ret[1].ok) =>
       \A n \in Names : Occurrences(ret[1].val, n) <= 1

\* name 1 is declared by a [[bin]] entry of the root, as the root's package
\* name, as the extra name and by both workspace members; it is returned once
C19_Witness ==
  /\ FindReturned
  /\ call[1].manifest.bin = << <<[name |-> <<1>>, path |-> <<>>]>> >>
  /\ call[1].manifest.package = <<1>>
  /\ call[1].extra_names = <<1>>
  /\ call[1].manifest.members # <<>>
  /\ Len(call[1].manifest.members[1]) = 2
  /\ \A i \in 1..2 :
       /\ call[1].manifest.members[1][i].kind = "Manifest"
       /\ call[1].manifest.members[1][i].data[1].package = <<1>>
  /\ 1 \in call[1].profile_files
  /\ ret[1] = Ok(<<1>>)

\* ---- C20
\* the default destination the given environment determines, if it does
GivenDefault(g) ==
  IF g.env_target # <<>>
    THEN IF g.env_target[1].s = "" THEN <<>> ELSE g.env_target
    ELSE IF g.home = <<>> THEN <<>>
         ELSE <<[abs |-> TRUE, s |-> g.home[1].s \o "/.local/bin"]>>

\* the override the run was given is the directory its environment makes the
\* default
GivenRedundant(g) ==
  /\ g.override # <<>>
  /\ GivenDefault(g) # <<>>
  /\ GivenDefault(g)[1] =
       IF g.override[1].abs THEN g.override[1]
       ELSE [abs |-> TRUE, s |-> "/proj/" \o g.override[1].s]

\* C20: in every summary a run constructs, and in the override note it builds
\* before, the redundancy warning is present exactly when an explicit
\* override was given, the default destination could be computed, and the
\* resolved override equals it; it is then the only warning.  override_used is
\* TRUE exactly when an explicit override was given, the redundant case
\* included; without an override no note is built and the warnings are empty.
C20_RedundancyWarning ==
  given # <<>> =>
    LET g == given[1]
        expected == IF GivenRedundant(g) THEN <<RedundantMessage>> ELSE <<>>
    IN /\ override_note # <<>> =>
            /\ g.override # <<>>
            /\ override_note[1].warnings = expected
       /\ \A i \in DOMAIN summaries :
            /\ summaries[i].override_used = (g.override # <<>>)
            /\ summaries[i].warnings = expected
            /\ g.override = <<>> => summaries[i].warnings = <<>>

\* a JSON run given the default directory as override: the summary carries
\* the warning and override_used
C20_Witness ==
  /\ given # <<>>
  /\ GivenRedundant(given[1])
  /\ emitted = 1
  /\ summaries[1].override_used
  /\ summaries[1].warnings = <<RedundantMessage>>

\* ---- C21
\* the run went through the copy engine to its final result
Concluded(r) == r \in {"Ok", "CopiesFailed"}

\* C21: idempotence of the copy engine.  When run_with_options is run twice
\* with identical inputs and an unchanged artifact directory, neither run
\* defers a self-update and both go through to their final result, the second
\* run ends with the same copied_count, the same copied and failed lists (as
\* collections: their order follows the HashSet's), the same status and the
\* same result as the first, and the destination holds the same files with
\* the same contents as after the first run.
C21_Idempotent ==
  (/\ pc = "exited"
   /\ first # <<>>
   /\ Concluded(first[1].result) /\ Concluded(result[1])
   /\ ~first[1].deferred /\ deferLog = <<>>)
    => /\ Outcome.copied_count = first[1].copied_count
       /\ Outcome.copied = first[1].copied
       /\ Outcome.failed = first[1].failed
       /\ Outcome.status = first[1].status
       /\ Outcome.result = first[1].result
       /\ Outcome.exit_code = first[1].exit_code
       /\ destFiles = first[1].destFiles

\* two concluded runs without deferral, each with a copy and a failure
C21_Witness ==
  /\ pc = "exited"
  /\ first # <<>>
  /\ Concluded(first[1].result) /\ Concluded(result[1])
  /\ ~first[1].deferred /\ deferLog = <<>>
  /\ first[1].copied_count > 0 /\ first[1].failed # {}
  /\ copied_count > 0 /\ failed_binaries # <<>>
  /\ built_executables[1] \notin first[1].copied

\* ---- C22
HelperMode == helper # <<>>

HelperBounded ==
  HelperMode =>
    /\ helper[1].attempts <= UpdateAttempts
    /\ pc = "helper" => /\ helper[1].attempts < UpdateAttempts
                        /\ ~helper[1].copied
                        /\ exit_code = <<>>
    /\ pc = "exited" =>
         /\ helper[1].attempts >= 1
         /\ exit_code = <<0>> <=> helper[1].copied
         /\ exit_code = <<1>> <=> (~helper[1].copied /\ helper[1].attempts = UpdateAttempts)
         /\ exit_code \in {<<0>>, <<1>>}

CleanupStep ==
  pc = "cleanup" =>
    /\ pc' = "start"
    /\ UNCHANGED << processVars, helper, exit_code >>
    /\ staleHelper = "stale" => staleHelper' \in {"deleted", "kept"}
    /\ staleHelper # "stale" => staleHelper' = staleHelper

ParseReturned ==
  /\ call # <<>>
  /\ call[1].fn = "parse_args"
  /\ ret # <<>>

\* C24: parse_args on an argument list whose first element is
\* --finish-update returns Command::FinishUpdate carrying the second and third
\* arguments verbatim as source and dest when exactly two further arguments
\* follow, and a parse error for any other length, never a Deploy command; and
\* the list try_self_update gives the spawned helper, the flag, the source
\* path, the destination path, parses to FinishUpdate with that source and
\* that destination.
C24_FinishUpdateParsed ==
  ParseReturned =>
    LET args == call[1].args
    IN /\ (args # <<>> /\ args[1] = FinishUpdateFlag) =>
            IF Len(args) = 3
              THEN ret[1] = Ok(FinishUpdate(args[2], args[3]))
              ELSE ~ret[1].ok
       /\ \A source_path, target_path \in ArgTokens :
            args = updater_args(source_path, target_path) =>
              ret[1] = Ok(FinishUpdate(source_path, target_path))

\* the helper's argument list has been parsed, and so has a list with the flag
\* and three more arguments
C24_Witness ==
  /\ ParseReturned
  /\ call[1].args = updater_args(Plain("/proj/target/release/app"),
                                 Plain("/home/u/.local/bin/app"))
  /\ ret[1].ok
  /\ ret[1].val.cmd = "FinishUpdate"

\* ---- C25
ProjectReturned ==
  /\ call # <<>>
  /\ call[1].fn = "project_setup"
  /\ ret # <<>>

SrcTauri == AbsPath("/proj/src-tauri")

FailedNames == { failed_binaries[i].binary : i \in DOMAIN failed_binaries }

\* the resolved artifacts that are in neither list
Unaccounted == (Range(built_executables) \ Range(copied_binaries)) \ FailedNames

\* the run is at its summary, or has returned the result that follows it
AtSummary ==
  \/ pc \in {"text", "note", "json", "final"}
  \/ /\ pc \in {"returned", "exited"}
     /\ result[1] \in {"Ok", "CopiesFailed"}
     /\ helperSpawned = <<>>

\* the run has returned right after spawning the helper
SpawnedAndReturned ==
  /\ pc \in {"returned", "exited"}
  /\ result = <<"Ok">>
  /\ helperSpawned # <<>>

\* C26: accounting.  Whenever the summary or the final result is produced,
\* copied_count is the length of the copied list, no name is in both lists
\* and copied_count plus the number of failures is the number of resolved
\* artifacts; only the run that returns after spawning the helper leaves an
\* artifact, the deferred one, in neither list.
C26_Accounting ==
  /\ (AtSummary \/ SpawnedAndReturned) =>
       /\ copied_count = Len(copied_binaries)
       /\ Range(copied_binaries) \cap FailedNames = {}
  /\ AtSummary =>
       /\ copied_count + Len(failed_binaries) = Len(built_executables)
       /\ Unaccounted = {}
  /\ SpawnedAndReturned => Unaccounted = {helperSpawned[1].dest}

\* ---- C27
\* C27: at most one artifact is deferred in any run: the pending-self-update
\* slot is never overwritten by a second matching artifact, so that every
\* deferred artifact is the one the slot holds.
C27_SingleDeferral ==
  /\ Len(deferLog) <= 1
  /\ \A i \in DOMAIN deferLog : pending_self_update = <<deferLog[i]>>

\* ---- C28
\* the errors of the configuration checks: no manifest, a manifest that cannot
\* be read or decoded, no candidates, no built executables
ConfigurationErrors == {"NoCargoToml", "ReadFailed", "ParseFailed", "NoPackages", "NoBuilt"}

\* C28: a run that ends with a configuration error leaves the filesystem
\* unchanged.  These checks come before destination resolution: the
\* destination is neither resolved nor created, nothing is copied and no
\* helper file is written.
C28_ConfigErrorsTouchNothing ==
  (result # <<>> /\ result[1] \in ConfigurationErrors) =>
    /\ destKind = given[1].kind
    /\ target_dir = <<>>
    /\ default_target = <<>>
    /\ \A n \in Names : destFiles[n] = "stale"
    /\ copyLog = <<>>
    /\ ~updaterFile
    /\ helperSpawned = <<>>
    /\ selfUpdateLog = <<>>

\* nothing was built, and the missing destination is still missing
C28_Witness ==
  /\ result = <<"NoBuilt">>
  /\ pc = "exited"
  /\ given[1].kind = "absent"
  /\ destKind = "absent"
  /\ target_dir = <<>>

\* ---- C29
\* C29: with an explicit override, a failure to compute the default
\* destination (the environment variable set but empty, or HOME absent) never
\* fails the run: the default is computed for comparison only, its error is
\* discarded, the override is used and no redundancy warning is given.
C29_DefaultErrorIgnored ==
  (/\ TargetAttempted
   /\ given[1].override # <<>>
   /\ \/ given[1].env_target = <<RelPath("")>>
      \/ given[1].env_target = <<>> /\ given[1].home = <<>>) =>
    /\ (result # <<>> => result[1] \notin {"EmptyOverrideVariable", "HomeNotSet"})
    /\ target_dir = <<IF given[1].override[1].abs THEN given[1].override[1]
                      ELSE AbsPath("/proj/" \o given[1].override[1].s)>>
    /\ override_raw = given[1].override
    /\ default_target = <<>>
    /\ override_note # <<>> => override_note[1].warnings = <<>>
    /\ \A i \in DOMAIN summaries : summaries[i].warnings = <<>>

\* a run with an override and an empty MD_TARGET_DIR that copied, wrote its
\* note and summary and exited with 0
C29_Witness ==
  /\ given[1].override # <<>>
  /\ given[1].env_target = <<RelPath("")>>
  /\ pc = "exited"
  /\ exit_code = <<0>>
  /\ copied_count > 0
  /\ override_note # <<>>
  /\ summaries # <<>>

\* ---- C30
\* the run returned the error of a write that failed before the loop was over
WriteFailedInLoop ==
  /\ WriteFailed
  /\ idx <= Len(built_executables)

\* C30: in text (non-quiet) mode a failure to write a progress line during
\* the copy loop makes run_with_options return an error at once.  The
\* artifact whose line failed is recorded in no list, the artifacts after it
\* are never attempted, the pending self-update is not attempted and no
\* summary is produced, while the artifacts already copied stay in the
\* destination; the process exits with 1.
C30_WriteFailureStopsLoop ==
  WriteFailedInLoop =>
    /\ emit_text
    /\ copied_count = Len(copied_binaries)
    /\ Len(copied_binaries) + Len(failed_binaries) + Len(deferLog) = idx - 1
    /\ Len(copyLog) + Len(deferLog) <= idx
    /\ \A j \in (idx + 1)..Len(built_executables) :
         /\ \A i \in DOMAIN copyLog : copyLog[i].name # built_executables[j]
         /\ \A i \in DOMAIN deferLog : deferLog[i] # built_executables[j]
    /\ selfUpdateLog = <<>> /\ ~updaterFile /\ helperSpawned = <<>>
    /\ override_note = <<>> /\ summaries = <<>> /\ emitted = 0
    /\ \A i \in DOMAIN copied_binaries : destFiles[Canonical(copied_binaries[i])] = "new"
    /\ \A i \in DOMAIN copyLog :
         copyLog[i].ok => destFiles[Canonical(copyLog[i].name)] = "new"
    /\ pc = "exited" => exit_code = <<1>>

\* the line of the second of three artifacts could not be written: the first
\* is copied and stays, the second was copied and is not counted, the third
\* was never attempted
C30_Witness ==
  /\ WriteFailedInLoop
  /\ pc = "exited"
  /\ Len(built_executables) = 3
  /\ idx = 2
  /\ copied_binaries = <<built_executables[1]>>
  /\ Len(copyLog) = 2
  /\ copyLog[2].ok
  /\ destFiles[Canonical(built_executables[2])] = "new"
  /\ destFiles[Canonical(built_executables[3])] = "stale"

====
